---- MODULE Spec2Model ----
(***************************************************************************)
(* Telescope: selector-file parsing (telescope/selector.py) and BigQuery   *)
(* query generation (telescope/query.py).                                  *)
(*                                                                         *)
(* Strings of the program are TLA+ strings.  A Python join or += on a      *)
(* string is kept as the sequence of the pieces that were concatenated, so *)
(* that the order of the pieces can be stated.  Datetimes are records      *)
(* [year, month, sec] with sec the seconds elapsed since the first instant *)
(* of the month; all datetimes are whole seconds, as parse_start_time and  *)
(* parse_duration produce them.                                            *)
(***************************************************************************)
EXTENDS Integers, Sequences, FiniteSets, TLC

VARIABLES
  generator,          \* "none" | "constructed" | the exception __init__ raised
  args,               \* the arguments __init__ was called with
  _select_list,       \* BigQueryQueryGenerator._select_list
  _table_list,        \* BigQueryQueryGenerator._table_list
  _conditional_dict,  \* BigQueryQueryGenerator._conditional_dict
  _query,             \* BigQueryQueryGenerator._query
  logger,             \* warnings logged by the generator, in order
  query_result,       \* what query() last returned
  table_span_result,  \* what table_span() last returned
  IPTranslationStrategySpec, \* attributes of the object iptranslation.IPTranslationStrategySpec
  parses,             \* the selector lists parse has returned so far, with their files
  parse_raised,       \* outcome of the last parse: "none" or the exception raised
  call,               \* pure-function runs: the function applied and its input
  outcome             \* pure-function runs: the value returned or exception raised

query_vars == <<generator, args, _select_list, _table_list, _conditional_dict,
                _query, logger, query_result, table_span_result>>
parser_vars == <<IPTranslationStrategySpec, parses, parse_raised>>
pure_vars == <<call, outcome>>
vars == <<query_vars, parser_vars, pure_vars>>

-----------------------------------------------------------------------------
(* Bounds *)

\* longest server_ips / client_ip_blocks list passed to the constructor
MaxList == 2

\* number of parse calls that return
MaxParses == 2

\* longest duration string given to parse_duration
MaxDurationLen == 4

-----------------------------------------------------------------------------
(* Python built-ins *)

\* Character codes of the strings the program orders (str comparison is by
\* character code).
ord(s) ==
  CASE s = "web100_log_entry.log_time" -> <<119, 101, 98, 49, 48, 48, 95, 108, 111, 103, 95, 101, 110, 116, 114, 121, 46, 108, 111, 103, 95, 116, 105, 109, 101>>
    [] s = "connection_spec.data_direction" -> <<99, 111, 110, 110, 101, 99, 116, 105, 111, 110, 95, 115, 112, 101, 99, 46, 100, 97, 116, 97, 95, 100, 105, 114, 101, 99, 116, 105, 111, 110>>
    [] s = "web100_log_entry.snap.State" -> <<119, 101, 98, 49, 48, 48, 95, 108, 111, 103, 95, 101, 110, 116, 114, 121, 46, 115, 110, 97, 112, 46, 83, 116, 97, 116, 101>>
    [] s = "web100_log_entry.snap.HCThruOctetsAcked" -> <<119, 101, 98, 49, 48, 48, 95, 108, 111, 103, 95, 101, 110, 116, 114, 121, 46, 115, 110, 97, 112, 46, 72, 67, 84, 104, 114, 117, 79, 99, 116, 101, 116, 115, 65, 99, 107, 101, 100>>
    [] s = "web100_log_entry.snap.SndLimTimeRwin" -> <<119, 101, 98, 49, 48, 48, 95, 108, 111, 103, 95, 101, 110, 116, 114, 121, 46, 115, 110, 97, 112, 46, 83, 110, 100, 76, 105, 109, 84, 105, 109, 101, 82, 119, 105, 110>>
    [] s = "web100_log_entry.snap.SndLimTimeCwnd" -> <<119, 101, 98, 49, 48, 48, 95, 108, 111, 103, 95, 101, 110, 116, 114, 121, 46, 115, 110, 97, 112, 46, 83, 110, 100, 76, 105, 109, 84, 105, 109, 101, 67, 119, 110, 100>>
    [] s = "web100_log_entry.snap.SndLimTimeSnd" -> <<119, 101, 98, 49, 48, 48, 95, 108, 111, 103, 95, 101, 110, 116, 114, 121, 46, 115, 110, 97, 112, 46, 83, 110, 100, 76, 105, 109, 84, 105, 109, 101, 83, 110, 100>>
    [] s = "web100_log_entry.snap.CongSignals" -> <<119, 101, 98, 49, 48, 48, 95, 108, 111, 103, 95, 101, 110, 116, 114, 121, 46, 115, 110, 97, 112, 46, 67, 111, 110, 103, 83, 105, 103, 110, 97, 108, 115>>
    [] s = "web100_log_entry.snap.HCThruOctetsReceived" -> <<119, 101, 98, 49, 48, 48, 95, 108, 111, 103, 95, 101, 110, 116, 114, 121, 46, 115, 110, 97, 112, 46, 72, 67, 84, 104, 114, 117, 79, 99, 116, 101, 116, 115, 82, 101, 99, 101, 105, 118, 101, 100>>
    [] s = "web100_log_entry.snap.Duration" -> <<119, 101, 98, 49, 48, 48, 95, 108, 111, 103, 95, 101, 110, 116, 114, 121, 46, 115, 110, 97, 112, 46, 68, 117, 114, 97, 116, 105, 111, 110>>
    [] s = "web100_log_entry.snap.MinRTT" -> <<119, 101, 98, 49, 48, 48, 95, 108, 111, 103, 95, 101, 110, 116, 114, 121, 46, 115, 110, 97, 112, 46, 77, 105, 110, 82, 84, 84>>
    [] s = "web100_log_entry.snap.CountRTT" -> <<119, 101, 98, 49, 48, 48, 95, 108, 111, 103, 95, 101, 110, 116, 114, 121, 46, 115, 110, 97, 112, 46, 67, 111, 117, 110, 116, 82, 84, 84>>
    [] s = "web100_log_entry.snap.SumRTT" -> <<119, 101, 98, 49, 48, 48, 95, 108, 111, 103, 95, 101, 110, 116, 114, 121, 46, 115, 110, 97, 112, 46, 83, 117, 109, 82, 84, 84>>
    [] s = "web100_log_entry.snap.SegsRetrans" -> <<119, 101, 98, 49, 48, 48, 95, 108, 111, 103, 95, 101, 110, 116, 114, 121, 46, 115, 110, 97, 112, 46, 83, 101, 103, 115, 82, 101, 116, 114, 97, 110, 115>>
    [] s = "web100_log_entry.snap.DataSegsOut" -> <<119, 101, 98, 49, 48, 48, 95, 108, 111, 103, 95, 101, 110, 116, 114, 121, 46, 115, 110, 97, 112, 46, 68, 97, 116, 97, 83, 101, 103, 115, 79, 117, 116>>
    [] s = "test_id" -> <<116, 101, 115, 116, 95, 105, 100>>
    [] s = "paris_traceroute_hop.dest_ip" -> <<112, 97, 114, 105, 115, 95, 116, 114, 97, 99, 101, 114, 111, 117, 116, 101, 95, 104, 111, 112, 46, 100, 101, 115, 116, 95, 105, 112>>
    [] s = "paris_traceroute_hop.src_ip" -> <<112, 97, 114, 105, 115, 95, 116, 114, 97, 99, 101, 114, 111, 117, 116, 101, 95, 104, 111, 112, 46, 115, 114, 99, 95, 105, 112>>
    [] s = "connection_spec.client_ip" -> <<99, 111, 110, 110, 101, 99, 116, 105, 111, 110, 95, 115, 112, 101, 99, 46, 99, 108, 105, 101, 110, 116, 95, 105, 112>>
    [] s = "connection_spec.server_ip" -> <<99, 111, 110, 110, 101, 99, 116, 105, 111, 110, 95, 115, 112, 101, 99, 46, 115, 101, 114, 118, 101, 114, 95, 105, 112>>
    [] s = "log_time" -> <<108, 111, 103, 95, 116, 105, 109, 101>>
    [] s = "10.0.0.2" -> <<49, 48, 46, 48, 46, 48, 46, 50>>
    [] s = "9.0.0.1" -> <<57, 46, 48, 46, 48, 46, 49>>
    [] s = "10.0.0.10" -> <<49, 48, 46, 48, 46, 48, 46, 49, 48>>

\* the strings the program orders
Strings ==
  {"web100_log_entry.log_time", "connection_spec.data_direction",
   "web100_log_entry.snap.State", "web100_log_entry.snap.HCThruOctetsAcked",
   "web100_log_entry.snap.SndLimTimeRwin", "web100_log_entry.snap.SndLimTimeCwnd",
   "web100_log_entry.snap.SndLimTimeSnd", "web100_log_entry.snap.CongSignals",
   "web100_log_entry.snap.HCThruOctetsReceived", "web100_log_entry.snap.Duration",
   "web100_log_entry.snap.MinRTT", "web100_log_entry.snap.CountRTT",
   "web100_log_entry.snap.SumRTT", "web100_log_entry.snap.SegsRetrans",
   "web100_log_entry.snap.DataSegsOut", "test_id", "paris_traceroute_hop.dest_ip",
   "paris_traceroute_hop.src_ip", "connection_spec.client_ip",
   "connection_spec.server_ip", "log_time", "10.0.0.2", "9.0.0.1", "10.0.0.10"}

\* x < y for two sequences of character codes: at the first position where
\* they differ, or by length when one is a prefix of the other
RECURSIVE codes_lt(_, _)
codes_lt(x, y) ==
  IF Len(y) = 0 THEN FALSE
  ELSE IF Len(x) = 0 THEN TRUE
  ELSE IF x[1] # y[1] THEN x[1] < y[1]
  ELSE codes_lt(Tail(x), Tail(y))

\* the pairs <<a, b>> of strings with a < b
str_lt_pairs == {p \in Strings \X Strings : codes_lt(ord(p[1]), ord(p[2]))}

\* a < b for two str values
str_lt(a, b) == <<a, b>> \in str_lt_pairs

\* sorted(list(s)) for a set s of str
RECURSIVE sorted(_)
sorted(s) ==
  IF s = {} THEN <<>>
  ELSE LET m == CHOOSE x \in s : \A y \in s \ {x} : str_lt(x, y)
       IN <<m>> \o sorted(s \ {m})

\* set(l) for a list l
set(l) == {l[i] : i \in 1..Len(l)}

\* sep.join(l), kept as the sequence of its pieces
RECURSIVE join(_, _)
join(sep, l) ==
  IF Len(l) = 0 THEN <<>>
  ELSE IF Len(l) = 1 THEN <<l[1]>>
  ELSE <<l[1], sep>> \o join(sep, Tail(l))

\* sep.join(l) as one string
RECURSIVE join_str(_, _)
join_str(sep, l) ==
  IF Len(l) = 0 THEN ""
  ELSE IF Len(l) = 1 THEN l[1]
  ELSE l[1] \o sep \o join_str(sep, Tail(l))

-----------------------------------------------------------------------------
(* datetime, dateutil *)

is_leap(y) == (y % 4 = 0 /\ y % 100 # 0) \/ y % 400 = 0

days_in_month(y, m) ==
  IF m = 2 THEN (IF is_leap(y) THEN 29 ELSE 28)
  ELSE IF m \in {4, 6, 9, 11} THEN 30 ELSE 31

\* datetime.datetime(year, month, day, hour, minute, second)
datetime(y, m, d, H, M, S) ==
  [year |-> y, month |-> m, sec |-> (d - 1) * 86400 + H * 3600 + M * 60 + S]

\* a <= b on datetimes
datetime_le(a, b) ==
  \/ a.year < b.year
  \/ a.year = b.year /\ a.month < b.month
  \/ a.year = b.year /\ a.month = b.month /\ a.sec <= b.sec

\* dt - datetime.timedelta(seconds = 1)
minus_one_second(dt) ==
  IF dt.sec > 0 THEN [dt EXCEPT !.sec = dt.sec - 1]
  ELSE LET y == IF dt.month = 1 THEN dt.year - 1 ELSE dt.year
           m == IF dt.month = 1 THEN 12 ELSE dt.month - 1
       IN [year |-> y, month |-> m, sec |-> days_in_month(y, m) * 86400 - 1]

\* dt + dateutil.relativedelta.relativedelta(months=1), for dt on the first
\* day of a month
plus_one_month(dt) ==
  IF dt.month = 12 THEN [dt EXCEPT !.year = dt.year + 1, !.month = 1]
  ELSE [dt EXCEPT !.month = dt.month + 1]

\* list(rrule.rrule(rrule.MONTHLY, dtstart).between(after, before, inc=True)),
\* for dtstart on the first day of a month: the occurrences dtstart + k months
\* lying in [after, before]; cur is the occurrence reached
RECURSIVE rrule_monthly_between(_, _, _)
rrule_monthly_between(cur, after, before) ==
  IF ~datetime_le(cur, before) THEN <<>>
  ELSE (IF datetime_le(after, cur) THEN <<cur>> ELSE <<>>)
       \o rrule_monthly_between(plus_one_month(cur), after, before)

\* dt.strftime("%Y_%m")
strftime_Y_m(dt) ==
  ToString(dt.year) \o "_" \o
  (IF dt.month < 10 THEN "0" \o ToString(dt.month) ELSE ToString(dt.month))

\* days from 1970-01-01 to the first day of month m of year y (y >= 1970)
RECURSIVE days_before_month(_, _)
days_before_month(y, m) ==
  IF m = 1
  THEN 365 * (y - 1970) + ((y - 1969) \div 4) - ((y - 1901) \div 100) + ((y - 1601) \div 400)
  ELSE days_before_month(y, m - 1) + days_in_month(y, m - 1)

\* int((dt - utils.unix_timestamp_to_utc_datetime(0)).total_seconds())
epoch_seconds(dt) == days_before_month(dt.year, dt.month) * 86400 + dt.sec

-----------------------------------------------------------------------------
(* telescope/query.py: class BigQueryQueryGenerator *)

database_name == "measurement-lab"

\* table_format.format(database_name = ..., table_date = ...)
table_format(db, table_date) == "[" \o db \o ":m_lab." \o table_date \o "]"

\* _build_table_list without the step back of one second from end_time
_build_table_list_end_not_stepped_back(start_time, end_time) ==
  LET start_time_fixed == datetime(start_time.year, start_time.month, 1, 0, 0, 0)
      end_time_fixed ==
        minus_one_second(plus_one_month(
          datetime(end_time.year, end_time.month, 1, 0, 0, 0)))
      months == rrule_monthly_between(start_time_fixed, start_time_fixed, end_time_fixed)
  IN [i \in 1..Len(months) |-> table_format(database_name, strftime_Y_m(months[i]))]

_build_table_list(start_time, end_time) ==
  LET start_time_fixed == datetime(start_time.year, start_time.month, 1, 0, 0, 0)
      end_time_inclusive == minus_one_second(end_time)
      end_time_fixed ==
        minus_one_second(plus_one_month(
          datetime(end_time_inclusive.year, end_time_inclusive.month, 1, 0, 0, 0)))
      months == rrule_monthly_between(start_time_fixed, start_time_fixed, end_time_fixed)
  IN [i \in 1..Len(months) |-> table_format(database_name, strftime_Y_m(months[i]))]

\* the three fields every select list starts from
baseline_fields ==
  <<"web100_log_entry.log_time",
    "connection_spec.data_direction",
    "web100_log_entry.snap.State">>

metric_data_directions ==
  [s2c |-> <<"web100_log_entry.snap.HCThruOctetsAcked",
             "web100_log_entry.snap.SndLimTimeRwin",
             "web100_log_entry.snap.SndLimTimeCwnd",
             "web100_log_entry.snap.SndLimTimeSnd",
             "web100_log_entry.snap.CongSignals">>,
   c2s |-> <<"web100_log_entry.snap.HCThruOctetsReceived",
             "web100_log_entry.snap.Duration">>]

metric_types ==
  [upload_throughput |-> <<>> \o metric_data_directions.c2s,
   download_throughput |-> <<>> \o metric_data_directions.s2c,
   minimum_rtt |-> <<"web100_log_entry.snap.MinRTT", "web100_log_entry.snap.CountRTT">>
                   \o metric_data_directions.s2c,
   average_rtt |-> <<"web100_log_entry.snap.SumRTT", "web100_log_entry.snap.CountRTT">>
                   \o metric_data_directions.s2c,
   packet_retransmit_rate |-> <<"web100_log_entry.snap.SegsRetrans",
                                "web100_log_entry.snap.DataSegsOut">>
                              \o metric_data_directions.s2c,
   hop_count |-> <<"test_id", "paris_traceroute_hop.dest_ip",
                   "paris_traceroute_hop.src_ip", "connection_spec.client_ip",
                   "connection_spec.server_ip", "log_time">>]

\* _build_select_list without the final sort and without the set: the
\* baseline fields followed by the metric's fields, as listed
_build_select_list_unsorted(metric) ==
  IF metric = "all" THEN [raised |-> "NameError", value |-> <<>>]
  ELSE IF metric \in DOMAIN metric_types
  THEN [raised |-> "none", value |-> baseline_fields \o metric_types[metric]]
  ELSE [raised |-> "UnsupportedMetric", value |-> <<>>]

\* metric 'all' reads the undefined name metrics_types: NameError
_build_select_list(metric) ==
  IF metric = "all" THEN [raised |-> "NameError", value |-> <<>>]
  ELSE IF metric \in DOMAIN metric_types
  THEN [raised |-> "none",
        value |-> sorted(set(baseline_fields) \cup set(metric_types[metric]))]
  ELSE [raised |-> "UnsupportedMetric", value |-> <<>>]

\* _add_data_direction_conditional with the two direction codes exchanged
_add_data_direction_conditional_swapped(d, metric) ==
  IF metric \in {"download_throughput", "minimum_rtt", "average_rtt",
                 "packet_retransmit_rate"}
  THEN ("data_direction" :> "connection_spec.data_direction == 0") @@ d
  ELSE IF metric \in {"upload_throughput"}
  THEN ("data_direction" :> "connection_spec.data_direction == 1") @@ d
  ELSE d

_add_data_direction_conditional(d, metric) ==
  IF metric \in {"download_throughput", "minimum_rtt", "average_rtt",
                 "packet_retransmit_rate"}
  THEN ("data_direction" :> "connection_spec.data_direction == 1") @@ d
  ELSE IF metric \in {"upload_throughput"}
  THEN ("data_direction" :> "connection_spec.data_direction == 0") @@ d
  ELSE d

_add_log_time_conditional(d, start_time_datetime, end_time_datetime, is_web100) ==
  LET d1 == IF "log_time" \in DOMAIN d THEN d ELSE ("log_time" :> {}) @@ d
      start_time == epoch_seconds(start_time_datetime)
      end_time == epoch_seconds(end_time_datetime)
      log_entry_fieldname == IF is_web100 THEN "web100_log_entry.log_time" ELSE "log_time"
      new_statement == "(" \o log_entry_fieldname \o " >= " \o ToString(start_time) \o ")"
                       \o " AND (" \o log_entry_fieldname \o " < " \o ToString(end_time) \o ")"
  IN [d1 EXCEPT !["log_time"] = d1["log_time"] \cup {new_statement}]

\* the warning _add_client_network_blocks_conditional logs, if any
client_ip_blocks_warning(client_ip_blocks) ==
  LET unique_client_ip_blocks == set(client_ip_blocks)
  IN IF Len(client_ip_blocks) # Cardinality(unique_client_ip_blocks)
     THEN <<"Client IP blocks contained duplicates.">> ELSE <<>>

\* the field holding the client's address
remote_ip_fieldname(is_web100) ==
  IF is_web100 THEN "web100_log_entry.connection_spec.remote_ip"
  ELSE "connection_spec.client_ip"

\* the statement for one (start_block, end_block)
client_network_block_statement(fieldname, block) ==
  "PARSE_IP(" \o fieldname \o ") BETWEEN " \o ToString(block[1])
  \o " AND " \o ToString(block[2])

\* one statement per entry of client_ip_blocks as passed: the loop reads the
\* argument, not the deduplicated and sorted unique_client_ip_blocks
_add_client_network_blocks_conditional(d, client_ip_blocks, is_web100) ==
  ("client_network_block" :>
     [i \in 1..Len(client_ip_blocks) |->
        client_network_block_statement(remote_ip_fieldname(is_web100),
                                       client_ip_blocks[i])]) @@ d

\* the warning _add_server_ips_conditional logs, if any
server_ips_warning(server_ips) ==
  IF Len(server_ips) # Cardinality(set(server_ips))
  THEN <<"Server IPs contained duplicates.">> ELSE <<>>

\* the field holding the server's address
local_ip_fieldname(is_web100) ==
  IF is_web100 THEN "web100_log_entry.connection_spec.local_ip"
  ELSE "connection_spec.server_ip"

\* the statement for one server_ip
server_ip_statement(fieldname, server_ip) == fieldname \o " = '" \o server_ip \o "'"

_add_server_ips_conditional(d, server_ips, is_web100) ==
  LET unique_server_ips == sorted(set(server_ips))
  IN ("server_ip" :>
        [i \in 1..Len(unique_server_ips) |->
           server_ip_statement(local_ip_fieldname(is_web100), unique_server_ips[i])]) @@ d

\* the fields project ndt requires to be non-null
ndt_non_null_fields ==
  <<"connection_spec.data_direction",
    "web100_log_entry.is_last_entry",
    "web100_log_entry.snap.HCThruOctetsAcked",
    "web100_log_entry.snap.CongSignals",
    "web100_log_entry.connection_spec.remote_ip",
    "web100_log_entry.connection_spec.local_ip">>

non_null_fields(mlab_project) ==
  IF mlab_project = "ndt" THEN ndt_non_null_fields ELSE <<>>

tool_specific_conditions(mlab_project) ==
  IF mlab_project = "ndt"
  THEN <<"project = 0", "web100_log_entry.is_last_entry = True">>
  ELSE IF mlab_project = "paris_traceroute" THEN <<"project = 3">>
  ELSE <<>>

\* the elements of a one-element set, as the list join iterates it
set_items(s) == IF s = {} THEN <<>> ELSE <<CHOOSE x \in s : TRUE>>

\* "(" + joined + ")"
parenthesised(joined) == "(" \o joined \o ")"

\* tool_specific_conditions ahead of the non-null conditions
guard_conditions_tool_first(mlab_project) ==
  LET fields == non_null_fields(mlab_project)
      non_null_conditions == [i \in 1..Len(fields) |-> fields[i] \o " IS NOT NULL"]
  IN tool_specific_conditions(mlab_project) \o non_null_conditions

\* non_null_conditions + tool_specific_conditions
guard_conditions(mlab_project) ==
  LET fields == non_null_fields(mlab_project)
      non_null_conditions == [i \in 1..Len(fields) |-> fields[i] \o " IS NOT NULL"]
  IN non_null_conditions \o tool_specific_conditions(mlab_project)

_create_query_string(select_list, table_list, d, mlab_project) ==
  LET guards == join("\n\tAND ", guard_conditions(mlab_project))
      with_direction ==
        IF "data_direction" \in DOMAIN d
        THEN guards \o <<"\n\tAND ", d["data_direction"]>>
        ELSE guards
      log_times_joined == join_str(" OR\n\t", set_items(d["log_time"]))
      with_log_time == with_direction \o <<"\n\tAND ", parenthesised(log_times_joined)>>
      server_ips_joined == join_str(" OR\n\t\t", d["server_ip"])
      with_server_ips == with_log_time \o <<"\n\tAND ", parenthesised(server_ips_joined)>>
      client_ips_joined == join_str(" OR\n\t\t", d["client_network_block"])
      with_client_ips == with_server_ips \o <<"\n\tAND ", parenthesised(client_ips_joined)>>
  IN [select_list |-> join(",\n\t", select_list),
      table_list |-> join(",\n\t", table_list),
      conditional_list |-> with_client_ips]

\* values the variables of a generator hold before construction
no_query == [select_list |-> <<>>, table_list |-> <<>>, conditional_list |-> <<>>]
no_args == [start_time |-> datetime(1970, 1, 1, 0, 0, 0),
            end_time |-> datetime(1970, 1, 1, 0, 0, 0),
            metric |-> "", project |-> "", server_ips |-> <<>>,
            client_ip_blocks |-> <<>>]

\* Inputs of the constructor
Instants ==
  {datetime(2013, 12, 1, 0, 0, 0), datetime(2013, 12, 31, 23, 59, 59),
   datetime(2014, 1, 1, 0, 0, 0), datetime(2014, 1, 15, 0, 0, 0),
   datetime(2014, 3, 1, 0, 0, 0), datetime(2014, 6, 1, 0, 0, 0),
   datetime(2014, 6, 1, 0, 0, 1)}
Metrics ==
  {"upload_throughput", "download_throughput", "minimum_rtt", "average_rtt",
   "packet_retransmit_rate", "hop_count", "all", "jitter"}
Projects == {"ndt", "paris_traceroute", "sidestream"}
ServerIps == {"10.0.0.2", "9.0.0.1"}
ClientIpBlocks == {<<5, 9>>, <<1, 4>>}

\* the lists over s of length at most n
ListsUpTo(s, n) == UNION {[1..k -> s] : k \in 0..n}

\* BigQueryQueryGenerator(start_time, end_time, metric, project, server_ips,
\* client_ip_blocks): __init__
BigQueryQueryGenerator(start_time, end_time, metric, project, server_ips, client_ip_blocks) ==
  /\ generator = "none"
  /\ args' = [start_time |-> start_time, end_time |-> end_time, metric |-> metric,
              project |-> project, server_ips |-> server_ips,
              client_ip_blocks |-> client_ip_blocks]
  /\ LET built == _build_select_list(metric)
         is_web100 == project # "paris_traceroute"
         d1 == _add_data_direction_conditional(<<>>, metric)
         d2 == _add_log_time_conditional(d1, start_time, end_time, is_web100)
         d3 == _add_client_network_blocks_conditional(d2, client_ip_blocks, is_web100)
         d4 == _add_server_ips_conditional(d3, server_ips, is_web100)
         tables == _build_table_list(start_time, end_time)
     IN IF built.raised # "none"
        THEN /\ generator' = built.raised
             /\ UNCHANGED <<_select_list, _table_list, _conditional_dict, _query, logger>>
        ELSE /\ generator' = "constructed"
             /\ _select_list' = built.value
             /\ _table_list' = tables
             /\ _conditional_dict' = d4
             /\ logger' = logger \o client_ip_blocks_warning(client_ip_blocks)
                                 \o server_ips_warning(server_ips)
             /\ _query' = _create_query_string(built.value, tables, d4, project)
  /\ UNCHANGED <<query_result, table_span_result, parser_vars, pure_vars>>

\* query()
query ==
  /\ generator = "constructed"
  /\ query_result' = _query
  /\ UNCHANGED <<generator, args, _select_list, _table_list, _conditional_dict,
                 _query, logger, table_span_result, parser_vars, pure_vars>>

\* table_span()
table_span ==
  /\ generator = "constructed"
  /\ table_span_result' = Len(_table_list)
  /\ UNCHANGED <<generator, args, _select_list, _table_list, _conditional_dict,
                 _query, logger, query_result, parser_vars, pure_vars>>

QueryIdle ==
  /\ generator = "none"
  /\ args = no_args
  /\ _select_list = <<>>
  /\ _table_list = <<>>
  /\ _conditional_dict = <<>>
  /\ _query = no_query
  /\ logger = <<>>
  /\ query_result = no_query
  /\ table_span_result = -1

ParserIdle ==
  /\ IPTranslationStrategySpec = [strategy_name |-> "", params |-> ""]
  /\ parses = <<>>
  /\ parse_raised = "none"

PureIdle ==
  /\ call = "none"
  /\ outcome = "none"

QueryInit == QueryIdle /\ ParserIdle /\ PureIdle

\* The argument tuples callers construct generators from: every time range
\* with every metric and project (and one server IP and client block), and
\* every pair of lists with every metric and project (and one time range).
\* The time range and the lists are handled by separate code.
ServerIpLists == ListsUpTo(ServerIps, MaxList)
ClientIpBlockLists == ListsUpTo(ClientIpBlocks, MaxList)
ConstructorArgs ==
  [start_time : Instants, end_time : Instants, metric : Metrics, project : Projects,
   server_ips : {<<"10.0.0.2">>}, client_ip_blocks : {<<<<1, 4>>>>}]
  \cup
  [start_time : {datetime(2014, 1, 15, 0, 0, 0)}, end_time : {datetime(2014, 3, 1, 0, 0, 0)},
   metric : Metrics, project : Projects,
   server_ips : ServerIpLists, client_ip_blocks : ClientIpBlockLists]

\* a caller constructs one generator
Construct ==
  /\ generator = "none"
  /\ \E a \in ConstructorArgs :
       BigQueryQueryGenerator(a.start_time, a.end_time, a.metric, a.project,
                              a.server_ips, a.client_ip_blocks)

QueryNext ==
  \/ Construct
  \/ query
  \/ table_span

QuerySpec == QueryInit /\ [][QueryNext]_vars

-----------------------------------------------------------------------------
(* telescope/selector.py: class Selector, class SelectorFileParser *)

\* A JSON object is a function from its keys; a key it lacks is outside its
\* DOMAIN.  The value of "metric" and of "subsets" carries its Python type:
\* [type, value] and [type, len, items], where items are the elements of a
\* list and len is what len() returns for a list, string or object.

\* the keys of supported_metrics, in the order the parser iterates them
supported_metrics_keys ==
  <<"hop_count", "download_throughput", "upload_throughput", "minimum_rtt",
    "average_rtt", "packet_retransmit_rate">>

supported_metrics ==
  [hop_count |-> "paris_traceroute", download_throughput |-> "ndt",
   upload_throughput |-> "ndt", minimum_rtt |-> "ndt", average_rtt |-> "ndt",
   packet_retransmit_rate |-> "ndt"]

supported_file_format_versions == [minimum |-> 1, maximum |-> 3]
supported_subset_keys == {"start_time", "client_provider", "site"}

\* the result of a call: the exception raised ("none" when it returned) and
\* the value returned
Returned(v) == [raised |-> "none", value |-> v]
Raised(e, v) == [raised |-> e, value |-> v]

\* datetime.datetime.strptime(s, "%Y-%m-%dT%H:%M:%SZ") on the start_time
\* strings of the selector files below; %m accepts a month without its
\* leading zero
parse_start_time(start_time_string) ==
  CASE start_time_string = "2014-01-01T00:00:00Z" -> Returned(datetime(2014, 1, 1, 0, 0, 0))
    [] start_time_string = "2014-1-01T00:00:00Z" -> Returned(datetime(2014, 1, 1, 0, 0, 0))
    [] start_time_string = "2014-02-01T00:00:00Z" -> Returned(datetime(2014, 2, 1, 0, 0, 0))
    [] OTHER -> Raised("UnsupportedSubsetDateFormat", datetime(1970, 1, 1, 0, 0, 0))

Digits == {"0", "1", "2", "3", "4", "5", "6", "7", "8", "9"}
Letters ==
  {"a", "b", "c", "d", "e", "f", "g", "h", "i", "j", "k", "l", "m", "n", "o", "p", "q",
   "r", "s", "t", "u", "v", "w", "x", "y", "z", "A", "B", "C", "D", "E", "F", "G", "H",
   "I", "J", "K", "L", "M", "N", "O", "P", "Q", "R", "S", "T", "U", "V", "W", "X", "Y",
   "Z"}

digit_value(c) ==
  CASE c = "0" -> 0 [] c = "1" -> 1 [] c = "2" -> 2 [] c = "3" -> 3 [] c = "4" -> 4
    [] c = "5" -> 5 [] c = "6" -> 6 [] c = "7" -> 7 [] c = "8" -> 8 [] c = "9" -> 9

\* the first index at or after i whose character is outside class, or
\* Len(s) + 1: where a greedy [class]+ begun at i stops
RECURSIVE run_end(_, _, _)
run_end(s, i, class) ==
  IF i <= Len(s) /\ s[i] \in class THEN run_end(s, i + 1, class) ELSE i

\* re.findall("[0-9]+[a-zA-Z]+", s) scanning from index i: the leftmost
\* match, then the matches after its end
RECURSIVE findall_segments(_, _)
findall_segments(s, i) ==
  IF i > Len(s) THEN <<>>
  ELSE LET j == run_end(s, i, Digits)
           k == run_end(s, j, Letters)
       IN IF j > i /\ k > j
          THEN <<SubSeq(s, i, k - 1)>> \o findall_segments(s, k)
          ELSE findall_segments(s, i + 1)

\* int(digits) for a string of decimal digits
RECURSIVE int(_)
int(digits) ==
  IF Len(digits) = 0 THEN 0
  ELSE int(SubSeq(digits, 1, Len(digits) - 1)) * 10 + digit_value(digits[Len(digits)])

\* the for loop of parse_duration over the segments from index i, with the
\* sum so far
RECURSIVE duration_loop(_, _, _)
duration_loop(segments, i, duration_seconds_to_return) ==
  IF i > Len(segments) THEN Returned(duration_seconds_to_return)
  ELSE LET segment == segments[i]
           digits_end == run_end(segment, 1, Digits)
           numerical_amount == int(SubSeq(segment, 1, digits_end - 1))
           duration_type == SubSeq(segment, digits_end, Len(segment))
       IN IF duration_type = <<"d">>
          THEN duration_loop(segments, i + 1,
                             duration_seconds_to_return + numerical_amount * 86400)
          ELSE IF duration_type = <<"h">>
          THEN duration_loop(segments, i + 1,
                             duration_seconds_to_return + numerical_amount * 3600)
          ELSE IF duration_type = <<"m">>
          THEN duration_loop(segments, i + 1,
                             duration_seconds_to_return + numerical_amount * 60)
          ELSE IF duration_type = <<"s">>
          THEN duration_loop(segments, i + 1,
                             duration_seconds_to_return + numerical_amount)
          ELSE Raised("UnsupportedSelectorDurationType", 0)

\* parse_duration adding every segment as seconds, whatever its unit
parse_duration_units_ignored(duration_string) ==
  LET segments == findall_segments(duration_string, 1)
      amount(i) == int(SubSeq(segments[i], 1, run_end(segments[i], 1, Digits) - 1))
      sum[i \in 0..Len(segments)] == IF i = 0 THEN 0 ELSE sum[i - 1] + amount(i)
  IN IF Len(segments) > 0 THEN Returned(sum[Len(segments)])
     ELSE Raised("UnsupportedSelectorDuration", 0)

\* duration_string is the sequence of the string's characters
parse_duration(duration_string) ==
  LET duration_string_segments == findall_segments(duration_string, 1)
  IN IF Len(duration_string_segments) > 0
     THEN duration_loop(duration_string_segments, 1, 0)
     ELSE Raised("UnsupportedSelectorDuration", 0)

\* the attributes of iptranslation.IPTranslationStrategySpec after
\* parse_ip_translation(ip_translation_dict): the name is not called, so the
\* assignments set attributes of that one object; a missing 'params' is
\* found after strategy_name has been assigned
parse_ip_translation_attributes(spec, ip_translation_dict) ==
  IF "strategy" \notin DOMAIN ip_translation_dict THEN spec
  ELSE IF "params" \notin DOMAIN ip_translation_dict
  THEN [spec EXCEPT !.strategy_name = ip_translation_dict["strategy"]]
  ELSE [strategy_name |-> ip_translation_dict["strategy"],
        params |-> ip_translation_dict["params"]]

\* what parse_ip_translation raises
parse_ip_translation_raised(ip_translation_dict) ==
  IF "strategy" \notin DOMAIN ip_translation_dict
  THEN "ValueError: Missing expected field in ip_translation dict: strategy"
  ELSE IF "params" \notin DOMAIN ip_translation_dict
  THEN "ValueError: Missing expected field in ip_translation dict: params"
  ELSE "none"

\* the for loop of find_independent_variable over keys from index i
RECURSIVE independent_variable_loop(_, _, _, _)
independent_variable_loop(subsets, keys, i, independent_variable) ==
  IF i > Len(keys)
  THEN IF independent_variable = "None" THEN Raised("NoIndependentVariable", "None")
       ELSE Returned(independent_variable)
  ELSE LET key == keys[i]
       IN IF subsets[1][key] # subsets[2][key] /\ independent_variable = "None"
          THEN independent_variable_loop(subsets, keys, i + 1, key)
          ELSE IF subsets[1][key] # subsets[2][key] /\ independent_variable # "None"
          THEN Raised("IncomparableSets", "None")
          ELSE independent_variable_loop(subsets, keys, i + 1, independent_variable)

\* find_independent_variable returning the first differing key, however
\* many keys differ
find_independent_variable_first_difference(subsets, keys) ==
  LET differing == {i \in 1..Len(keys) : subsets[1][keys[i]] # subsets[2][keys[i]]}
  IN IF differing = {} THEN Raised("NoIndependentVariable", "None")
     ELSE Returned(keys[CHOOSE i \in differing : \A j \in differing : i <= j])

\* keys is subsets[0].keys(), in the order the dict yields them
find_independent_variable(subsets, keys) ==
  independent_variable_loop(subsets, keys, 1, "None")

\* the keys of a dict in some order
RECURSIVE keys_of(_)
keys_of(ks) ==
  IF ks = {} THEN <<>>
  ELSE LET k == CHOOSE x \in ks : TRUE IN <<k>> \o keys_of(ks \ {k})

\* len(selector_dict['subsets']) is taken before 'subsets' is known to be
\* present (KeyError when it is not) and to be a list (TypeError for a value
\* without a length, such as a number)
validate_selector_input(selector_dict) ==
  IF \/ "file_format_version" \notin DOMAIN selector_dict
     \/ selector_dict["file_format_version"] < supported_file_format_versions.minimum
     \/ selector_dict["file_format_version"] > supported_file_format_versions.maximum
  THEN Raised("UnsupportedSelectorVersion", "None")
  ELSE IF "duration" \notin DOMAIN selector_dict
  THEN Raised("UnsupportedDuration", "None")
  ELSE IF \/ "metric" \notin DOMAIN selector_dict
          \/ selector_dict["metric"].type \notin {"str", "unicode"}
          \/ (selector_dict["metric"].value \notin DOMAIN supported_metrics
              /\ selector_dict["metric"].value # "all")
  THEN Raised("UnsupportedMetric", "None")
  ELSE IF "subsets" \notin DOMAIN selector_dict
  THEN Raised("KeyError: 'subsets'", "None")
  ELSE IF selector_dict["subsets"].type \notin {"list", "unicode", "dict"}
  THEN Raised("TypeError", "None")
  ELSE IF selector_dict["subsets"].len > 2 \/ selector_dict["subsets"].len < 1
  THEN Raised("UnsupportedSubsetSize", "None")
  ELSE IF selector_dict["subsets"].type # "list"
  THEN Raised("UnsupportedSubsets", "None")
  ELSE IF \E i \in 1..selector_dict["subsets"].len :
            DOMAIN selector_dict["subsets"].items[i] # supported_subset_keys
  THEN Raised("UnsupportedSubsetDefinition", "None")
  ELSE IF selector_dict["subsets"].len = 2
  THEN LET found == find_independent_variable(
                      selector_dict["subsets"].items,
                      keys_of(DOMAIN selector_dict["subsets"].items[1]))
       IN IF found.raised # "none" THEN found ELSE Returned("True")
  ELSE Returned("True")

\* metrics of _parse_file_contents for metric 'all', hop_count left out
metrics_of_all_without_hop_count(selector_input_json) ==
  IF selector_input_json["metric"].value = "all"
  THEN Tail(supported_metrics_keys)
  ELSE <<selector_input_json["metric"].value>>

\* the list metrics of _parse_file_contents
metrics_of(selector_input_json) ==
  IF selector_input_json["metric"].value = "all"
  THEN supported_metrics_keys
  ELSE <<selector_input_json["metric"].value>>

\* the nested for loops of _parse_file_contents from the i-th (subset,
\* metric) pair on: the exception raised if any, the selectors appended so
\* far and the attributes of iptranslation.IPTranslationStrategySpec
RECURSIVE selectors_loop(_, _, _, _, _)
selectors_loop(selector_input_json, metrics, i, selectors, spec) ==
  LET subsets == selector_input_json["subsets"].items
  IN IF i > Len(subsets) * Len(metrics)
     THEN [raised |-> "none", selectors |-> selectors, spec |-> spec]
     ELSE LET selector_subset == subsets[((i - 1) \div Len(metrics)) + 1]
              metric == metrics[((i - 1) % Len(metrics)) + 1]
              start_time == parse_start_time(selector_subset["start_time"])
              duration == parse_duration(selector_input_json["duration"])
          IN IF start_time.raised # "none"
             THEN [raised |-> start_time.raised, selectors |-> selectors, spec |-> spec]
             ELSE IF duration.raised # "none"
             THEN [raised |-> duration.raised, selectors |-> selectors, spec |-> spec]
             ELSE IF "ip_translation" \notin DOMAIN selector_input_json
             THEN [raised |-> "KeyError: 'ip_translation'", selectors |-> selectors,
                   spec |-> spec]
             ELSE LET ip_translation_dict == selector_input_json["ip_translation"]
                      spec_after == parse_ip_translation_attributes(spec, ip_translation_dict)
                      selector ==
                        [start_time |-> start_time.value,
                         duration |-> duration.value,
                         metric |-> metric,
                         ip_translation_spec |-> "iptranslation.IPTranslationStrategySpec",
                         client_provider |-> selector_subset["client_provider"],
                         site_name |-> selector_subset["site"],
                         mlab_project |-> supported_metrics[metric]]
                  IN IF parse_ip_translation_raised(ip_translation_dict) # "none"
                     THEN [raised |-> parse_ip_translation_raised(ip_translation_dict),
                           selectors |-> selectors, spec |-> spec_after]
                     ELSE selectors_loop(selector_input_json, metrics, i + 1,
                                         Append(selectors, selector), spec_after)

\* selector_input_json is json.loads(selector_file_contents); spec holds the
\* attributes of iptranslation.IPTranslationStrategySpec at the call
_parse_file_contents(selector_input_json, spec) ==
  LET valid == validate_selector_input(selector_input_json)
  IN IF valid.raised # "none"
     THEN [raised |-> valid.raised, selectors |-> <<>>, spec |-> spec]
     ELSE selectors_loop(selector_input_json, metrics_of(selector_input_json), 1,
                         <<>>, spec)

\* the attributes of the object a Selector's ip_translation_spec refers to
ip_translation_spec_of(selector) == IPTranslationStrategySpec

\* Selector files

\* a JSON object holding the present entries of all
JsonObject(all) == [k \in {x \in DOMAIN all : all[x].present} |-> all[k].value]
Present(v) == [present |-> TRUE, value |-> v]
Absent(v) == [present |-> FALSE, value |-> v]

Subset(start_time, client_provider, site) ==
  [start_time |-> start_time, client_provider |-> client_provider, site |-> site]
JsonList(items) == [type |-> "list", len |-> Len(items), items |-> items]
JsonOther(type, len) == [type |-> type, len |-> len, items |-> <<>>]
JsonString(s) == [type |-> "unicode", value |-> s]

SelectorFile(version, duration, metric, ip_translation, subsets) ==
  JsonObject([file_format_version |-> version, duration |-> duration, metric |-> metric,
              ip_translation |-> ip_translation, subsets |-> subsets])

SubsetA == Subset("2014-01-01T00:00:00Z", "comcast", "lga01")
SubsetB == Subset("2014-02-01T00:00:00Z", "comcast", "lga01")

\* the files parse is given: two metrics, three ip_translation entries (one
\* lacking 'params') and one or two subsets, and four files with one fault
\* or oddity each
ParsedFiles ==
  {SelectorFile(Present(1), Present(<<"1", "d", "2", "h">>), Present(JsonString(metric)),
                Present(ip_translation), Present(JsonList(subsets))) :
     metric \in {"all", "download_throughput"},
     ip_translation \in {[strategy |-> "maxmind", params |-> "db1"],
                         [strategy |-> "whois", params |-> "db2"],
                         [strategy |-> "manual"]},
     subsets \in {<<SubsetA>>, <<SubsetA, SubsetB>>}}
  \cup
  {SelectorFile(Present(1), Present(<<"3", "0", "d">>), Present(JsonString("hop_count")),
                Absent([strategy |-> "", params |-> ""]), Present(JsonList(<<SubsetA>>))),
   SelectorFile(Present(1), Present(<<"3", "0", "d">>), Present(JsonString("hop_count")),
                Present([strategy |-> "whois", params |-> "db2"]),
                Present(JsonList(<<SubsetA, Subset("2014-01-01", "comcast", "lga01")>>))),
   SelectorFile(Present(1), Present(<<"3", "0", "d">>), Present(JsonString("hop_count")),
                Present([strategy |-> "whois", params |-> "db2"]),
                Present(JsonList(<<SubsetA, Subset("2014-1-01T00:00:00Z", "comcast", "lga01")>>))),
   SelectorFile(Present(1), Present(<<"3", "0", "x">>), Present(JsonString("hop_count")),
                Present([strategy |-> "whois", params |-> "db2"]),
                Present(JsonList(<<SubsetA>>)))}

\* the SelectorFileParser instances; an instance holds its logger only
Parsers == {"parser1", "parser2"}

\* parser.parse(selector_filepath), the file holding selector_input_json
parse(parser, selector_input_json) ==
  /\ Len(parses) < MaxParses
  /\ LET result == _parse_file_contents(selector_input_json, IPTranslationStrategySpec)
     IN /\ IPTranslationStrategySpec' = result.spec
        /\ parse_raised' = result.raised
        /\ parses' = IF result.raised = "none"
                     THEN Append(parses, [parser |-> parser, file |-> selector_input_json,
                                          selectors |-> result.selectors])
                     ELSE parses
  /\ UNCHANGED <<query_vars, pure_vars>>

ParserInit == QueryIdle /\ ParserIdle /\ PureIdle

ParserNext ==
  \E parser \in Parsers, selector_input_json \in ParsedFiles :
    parse(parser, selector_input_json)

ParserSpec == ParserInit /\ [][ParserNext]_vars

-----------------------------------------------------------------------------
(* Runs of one function on one input: call is drawn by the initial state,   *)
(* outcome is what the function returned or raised.                         *)

NotCalled == [raised |-> "not called", value |-> "None"]

\* the permutations of supported_subset_keys: the orders in which
\* subsets[0].keys() may yield the keys
KeyOrders ==
  {o \in [1..3 -> supported_subset_keys] : \A i, j \in 1..3 : i # j => o[i] # o[j]}

\* the subsets of the validated inputs: every choice of two values per key,
\* one subset without 'site' and one with a fourth key
WellKeyedSubsets ==
  {Subset(start_time, client_provider, site) :
     start_time \in {"2014-01-01T00:00:00Z", "2014-02-01T00:00:00Z"},
     client_provider \in {"comcast", "verizon"},
     site \in {"lga01", "lax01"}}
IllKeyedSubsets ==
  {[start_time |-> "2014-01-01T00:00:00Z", client_provider |-> "comcast"],
   [start_time |-> "2014-01-01T00:00:00Z", client_provider |-> "comcast",
    site |-> "lga01", isp |-> "comcast"]}

\* the values of 'subsets': absent, a number, null, strings and objects of
\* several lengths, and lists of zero to three subsets
SubsetsValues ==
  {Absent(JsonList(<<>>)), Present(JsonOther("int", 0)), Present(JsonOther("NoneType", 0))}
  \cup {Present(JsonOther("unicode", n)) : n \in 0..3}
  \cup {Present(JsonOther("dict", n)) : n \in 1..3}
  \cup {Present(JsonList(l)) : l \in ListsUpTo(WellKeyedSubsets \cup IllKeyedSubsets, 2)}
  \cup {Present(JsonList(<<SubsetA, SubsetA, SubsetB>>)),
        Present(JsonList(<<SubsetA, SubsetB, Subset("2014-01-01T00:00:00Z", "verizon", "lax01")>>))}

ValidatedInputs ==
  {SelectorFile(version, duration, metric,
                Present([strategy |-> "maxmind", params |-> "db1"]), subsets) :
     version \in {Absent(0), Present(0), Present(1), Present(3), Present(4)},
     duration \in {Absent(<<>>), Present(<<"1", "d">>)},
     metric \in {Absent(JsonString("")), Present([type |-> "int", value |-> "5"]),
                 Present(JsonString("all")), Present(JsonString("minimum_rtt")),
                 Present(JsonString("jitter"))},
     subsets \in SubsetsValues}

ValidateCalls ==
  [fn : {"validate_selector_input"}, input : ValidatedInputs, keys : {<<>>}]
  \cup
  [fn : {"find_independent_variable"},
   input : {SelectorFile(Present(1), Present(<<"1", "d">>), Present(JsonString("all")),
                         Present([strategy |-> "maxmind", params |-> "db1"]),
                         Present(JsonList(l))) : l \in [1..2 -> WellKeyedSubsets]},
   keys : KeyOrders]

\* parser.validate_selector_input(call.input)
validate_selector_input_call ==
  /\ call.fn = "validate_selector_input"
  /\ outcome = NotCalled
  /\ outcome' = validate_selector_input(call.input)
  /\ UNCHANGED <<call, query_vars, parser_vars>>

\* parser.find_independent_variable(subsets), subsets being the two subsets
\* of call.input and call.keys the order subsets[0].keys() yields
find_independent_variable_call ==
  /\ call.fn = "find_independent_variable"
  /\ outcome = NotCalled
  /\ outcome' = find_independent_variable(call.input["subsets"].items, call.keys)
  /\ UNCHANGED <<call, query_vars, parser_vars>>

ValidateInit ==
  /\ QueryIdle
  /\ ParserIdle
  /\ call \in ValidateCalls
  /\ outcome = NotCalled

ValidateNext ==
  \/ validate_selector_input_call
  \/ find_independent_variable_call

ValidateSpec == ValidateInit /\ [][ValidateNext]_vars

\* the characters of the duration strings, and the strings
DurationCharacters == {"0", "1", "2", "d", "h", "m", "s", "x"}
DurationStrings == ListsUpTo(DurationCharacters, MaxDurationLen)

NotParsed == [raised |-> "not called", value |-> 0]

\* parser.parse_duration(call.input)
parse_duration_call ==
  /\ call.fn = "parse_duration"
  /\ outcome = NotParsed
  /\ outcome' = parse_duration(call.input)
  /\ UNCHANGED <<call, query_vars, parser_vars>>

DurationInit ==
  /\ QueryIdle
  /\ ParserIdle
  /\ call \in [fn : {"parse_duration"}, input : DurationStrings]
  /\ outcome = NotParsed

DurationNext == parse_duration_call

DurationSpec == DurationInit /\ [][DurationNext]_vars

-----------------------------------------------------------------------------
(* Properties of the query generator, checked under QuerySpec *)

supported_metric_names ==
  {"upload_throughput", "download_throughput", "minimum_rtt", "average_rtt",
   "packet_retransmit_rate", "hop_count"}

\* calendar months numbered consecutively, and instants as <<month number,
\* seconds into the month>>
MonthNumber(dt) == dt.year * 12 + (dt.month - 1)
InstantOf(dt) == <<MonthNumber(dt), dt.sec>>
Before(a, b) == a[1] < b[1] \/ (a[1] = b[1] /\ a[2] < b[2])

\* month k, the half-open interval from its first instant to the first
\* instant of month k + 1, shares an instant with [start, end)
MonthIntersects(k, start, end) ==
  /\ Before(InstantOf(start), <<k + 1, 0>>)
  /\ Before(<<k, 0>>, InstantOf(end))

MonthsIntersecting(start, end) ==
  {k \in (MonthNumber(start) - 1)..(MonthNumber(end) + 1) :
     MonthIntersects(k, start, end)}

ShardName(k) ==
  "[measurement-lab:m_lab." \o ToString(k \div 12) \o "_"
  \o (IF (k % 12) + 1 < 10 THEN "0" ELSE "") \o ToString((k % 12) + 1) \o "]"

ListsOnce(s, m) ==
  /\ Len(s) = Cardinality(m)
  /\ \A x \in m : \E i \in 1..Len(s) : s[i] = x

\* C2: for every client_ip_blocks and server_ips, repeated entries included,
\* construction raises nothing, the client_network_block group holds one
\* predicate per distinct (start, end) range in ascending order of range
\* start, and the server_ip group holds one predicate per distinct IP string
\* in lexicographic order.
C2_GroupsDeduplicatedAndSorted ==
  (generator # "none" /\ args.metric \in supported_metric_names) =>
    /\ generator = "constructed"
    /\ LET is_web100 == args.project # "paris_traceroute"
           blocks == set(args.client_ip_blocks)
           ips == set(args.server_ips)
           client_group == _conditional_dict["client_network_block"]
           server_group == _conditional_dict["server_ip"]
       IN /\ \E order \in [1..Cardinality(blocks) -> blocks] :
               /\ ListsOnce(order, blocks)
               /\ \A i \in 1..(Len(order) - 1) : order[i][1] <= order[i + 1][1]
               /\ client_group =
                    [i \in 1..Len(order) |->
                       client_network_block_statement(remote_ip_fieldname(is_web100), order[i])]
          /\ \E order \in [1..Cardinality(ips) -> ips] :
               /\ ListsOnce(order, ips)
               /\ \A i \in 1..(Len(order) - 1) : str_lt(order[i], order[i + 1])
               /\ server_group =
                    [i \in 1..Len(order) |->
                       server_ip_statement(local_ip_fieldname(is_web100), order[i])]

Direction0 == "connection_spec.data_direction == 0"
Direction1 == "connection_spec.data_direction == 1"

\* C7: the query for upload_throughput contains the data-direction predicate
\* with code 0 and not the one with code 1; the query for
\* download_throughput, minimum_rtt, average_rtt and packet_retransmit_rate
\* contains the one with code 1 and not the one with code 0; the query for
\* hop_count contains neither.
C7_DataDirectionByMetric ==
  generator = "constructed" =>
    LET pieces == set(_query.conditional_list)
    IN /\ args.metric = "upload_throughput" =>
            Direction0 \in pieces /\ Direction1 \notin pieces
       /\ args.metric \in {"download_throughput", "minimum_rtt", "average_rtt",
                           "packet_retransmit_rate"} =>
            Direction1 \in pieces /\ Direction0 \notin pieces
       /\ args.metric = "hop_count" =>
            Direction0 \notin pieces /\ Direction1 \notin pieces

\* C7 witness: query() returned an upload_throughput query holding the
\* code-0 predicate.
C7_Witness ==
  /\ generator = "constructed"
  /\ args.metric = "upload_throughput"
  /\ Direction0 \in set(query_result.conditional_list)
  /\ Len(args.server_ips) = 2

\* C8: for every supported metric the select list is in ascending
\* lexicographic order, holds no field twice, and is the union of the three
\* baseline fields with the metric's field list.
C8_SelectListSortedUnion ==
  generator = "constructed" =>
    /\ \A i \in 1..(Len(_select_list) - 1) : str_lt(_select_list[i], _select_list[i + 1])
    /\ \A i, j \in 1..Len(_select_list) : i # j => _select_list[i] # _select_list[j]
    /\ set(_select_list) =
         {"web100_log_entry.log_time", "connection_spec.data_direction",
          "web100_log_entry.snap.State"} \cup set(metric_types[args.metric])

\* C8 witness: the select list built for minimum_rtt.
C8_Witness ==
  /\ generator = "constructed"
  /\ args.metric = "minimum_rtt"
  /\ _select_list =
       <<"connection_spec.data_direction",
         "web100_log_entry.log_time",
         "web100_log_entry.snap.CongSignals",
         "web100_log_entry.snap.CountRTT",
         "web100_log_entry.snap.HCThruOctetsAcked",
         "web100_log_entry.snap.MinRTT",
         "web100_log_entry.snap.SndLimTimeCwnd",
         "web100_log_entry.snap.SndLimTimeRwin",
         "web100_log_entry.snap.SndLimTimeSnd",
         "web100_log_entry.snap.State">>

\* the conjuncts of a WHERE clause: its pieces other than the connective
IsConjunct(piece) == piece # "\n\tAND "
Conjuncts(conditional_list) == SelectSeq(conditional_list, IsConjunct)

ExpectedGuards(project) ==
  IF project = "ndt"
  THEN <<"connection_spec.data_direction IS NOT NULL",
         "web100_log_entry.is_last_entry IS NOT NULL",
         "web100_log_entry.snap.HCThruOctetsAcked IS NOT NULL",
         "web100_log_entry.snap.CongSignals IS NOT NULL",
         "web100_log_entry.connection_spec.remote_ip IS NOT NULL",
         "web100_log_entry.connection_spec.local_ip IS NOT NULL",
         "project = 0",
         "web100_log_entry.is_last_entry = True">>
  ELSE IF project = "paris_traceroute" THEN <<"project = 3">>
  ELSE <<>>

ExpectedDirection(metric) ==
  IF metric = "upload_throughput" THEN <<Direction0>>
  ELSE IF metric = "hop_count" THEN <<>>
  ELSE <<Direction1>>

\* C10: the conjuncts of the WHERE clause are, in this order: the schema
\* guards (ndt: the non-null fields, the tool discriminator, the
\* is-last-entry flag; paris_traceroute: the tool discriminator), the
\* data-direction predicate if the metric has one, the log-time group, the
\* server-IP group, the client-network-block group; each exactly once.
C10_ConjunctOrder ==
  generator = "constructed" =>
    Conjuncts(_query.conditional_list) =
      ExpectedGuards(args.project) \o ExpectedDirection(args.metric)
      \o <<parenthesised(join_str(" OR\n\t", set_items(_conditional_dict["log_time"]))),
           parenthesised(join_str(" OR\n\t\t", _conditional_dict["server_ip"])),
           parenthesised(join_str(" OR\n\t\t", _conditional_dict["client_network_block"]))>>

\* C10 witness: an ndt download_throughput query with two server IPs and two
\* client blocks: eight guards, the direction predicate, three groups.
C10_Witness ==
  /\ generator = "constructed"
  /\ args.project = "ndt"
  /\ args.metric = "download_throughput"
  /\ Len(_conditional_dict["server_ip"]) = 2
  /\ Len(_conditional_dict["client_network_block"]) = 2
  /\ Len(Conjuncts(_query.conditional_list)) = 12
  /\ Conjuncts(_query.conditional_list)[7] = "project = 0"
  /\ Conjuncts(_query.conditional_list)[9] = Direction1

-----------------------------------------------------------------------------
(* Properties of the selector parser *)

\* C3: once parse has returned Selectors, no later parse, whether it returns
\* or fails, by the same or another parser, changes them: the strategy_name
\* and params of every returned Selector's ip_translation_spec stay those of
\* the file the Selector was parsed from.
C3_ReturnedSelectorsKeepIpTranslation ==
  \A i \in 1..Len(parses) : \A j \in 1..Len(parses[i].selectors) :
    LET spec == ip_translation_spec_of(parses[i].selectors[j])
    IN /\ spec.strategy_name = parses[i].file["ip_translation"]["strategy"]
       /\ spec.params = parses[i].file["ip_translation"]["params"]

\* the input passes the version, duration and metric checks
PassesVersionDurationMetric(input) ==
  /\ "file_format_version" \in DOMAIN input
  /\ input["file_format_version"] \in 1..3
  /\ "duration" \in DOMAIN input
  /\ "metric" \in DOMAIN input
  /\ input["metric"].type = "unicode"
  /\ input["metric"].value \in supported_metric_names \cup {"all"}

\* C4: for an input that passes the version, duration and metric checks,
\* validate_selector_input raises UnsupportedSubsets when 'subsets' is
\* absent or not a list and UnsupportedSubsetSize when it is a list of a
\* length other than 1 or 2, and nothing else for these inputs.
C4_SubsetsErrors ==
  (/\ call.fn = "validate_selector_input"
   /\ outcome # NotCalled
   /\ PassesVersionDurationMetric(call.input)) =>
    /\ ("subsets" \notin DOMAIN call.input \/ call.input["subsets"].type # "list") =>
         outcome.raised = "UnsupportedSubsets"
    /\ ("subsets" \in DOMAIN call.input /\ call.input["subsets"].type = "list"
        /\ call.input["subsets"].len \notin {1, 2}) =>
         outcome.raised = "UnsupportedSubsetSize"

\* the keys on which two subsets differ
DifferingKeys(a, b) == {k \in {"start_time", "client_provider", "site"} : a[k] # b[k]}

\* what the comparison of two subsets must give
ExpectedIndependentVariable(a, b) ==
  IF Cardinality(DifferingKeys(a, b)) = 1
  THEN Returned(CHOOSE k \in DifferingKeys(a, b) : TRUE)
  ELSE IF DifferingKeys(a, b) = {} THEN Raised("NoIndependentVariable", "None")
  ELSE Raised("IncomparableSets", "None")

\* the input reaches the last check of validate_selector_input: it passes
\* the earlier ones and 'subsets' is a list of 1 or 2 well-keyed subsets
ReachesPairCheck(input) ==
  /\ PassesVersionDurationMetric(input)
  /\ "subsets" \in DOMAIN input
  /\ input["subsets"].type = "list"
  /\ input["subsets"].len \in {1, 2}
  /\ \A i \in 1..input["subsets"].len :
       DOMAIN input["subsets"].items[i] = {"start_time", "client_provider", "site"}

\* C5: for two subsets over start_time, client_provider and site,
\* find_independent_variable returns the key when exactly one differs,
\* raises NoIndependentVariable when none does and IncomparableSets when two
\* or more do; validate_selector_input makes this check for 2 subsets (and
\* returns True when it passes) and not for 1.
C5_IndependentVariable ==
  /\ (call.fn = "find_independent_variable" /\ outcome # NotCalled) =>
       outcome = ExpectedIndependentVariable(call.input["subsets"].items[1],
                                             call.input["subsets"].items[2])
  /\ (/\ call.fn = "validate_selector_input"
      /\ outcome # NotCalled
      /\ ReachesPairCheck(call.input)) =>
       IF call.input["subsets"].len = 2
       THEN LET expected == ExpectedIndependentVariable(call.input["subsets"].items[1],
                                                        call.input["subsets"].items[2])
            IN IF expected.raised = "none" THEN outcome = Returned("True")
               ELSE outcome.raised = expected.raised
       ELSE outcome = Returned("True")

\* C5 witness: two subsets that differ in site alone, whose keys come in an
\* order that does not start with site: site is returned.
C5_Witness ==
  /\ call.fn = "find_independent_variable"
  /\ call.keys[3] = "site"
  /\ DifferingKeys(call.input["subsets"].items[1], call.input["subsets"].items[2]) = {"site"}
  /\ outcome = Returned("site")

ExpectedProject(metric) == IF metric = "hop_count" THEN "paris_traceroute" ELSE "ndt"

\* C6: parse returns one Selector for each (subset, metric) pair, subset by
\* subset, metric 'all' standing for the six supported metrics and any other
\* metric for itself, no pair twice, each Selector's mlab_project being the
\* table's entry for its metric.
C6_SelectorsAreCrossProduct ==
  \A p \in 1..Len(parses) :
    LET file == parses[p].file
        selectors == parses[p].selectors
        subsets == file["subsets"].items
        metrics == IF file["metric"].value = "all" THEN supported_metric_names
                   ELSE {file["metric"].value}
        n == Cardinality(metrics)
    IN /\ Len(selectors) = Len(subsets) * n
       /\ \A i \in 1..Len(subsets) :
            /\ {selectors[j].metric : j \in ((i - 1) * n + 1)..(i * n)} = metrics
            /\ \A j \in ((i - 1) * n + 1)..(i * n) :
                 /\ selectors[j].start_time = parse_start_time(subsets[i]["start_time"]).value
                 /\ selectors[j].client_provider = subsets[i]["client_provider"]
                 /\ selectors[j].site_name = subsets[i]["site"]
                 /\ selectors[j].mlab_project = ExpectedProject(selectors[j].metric)

\* C6 witness: a file with metric 'all' and two subsets was parsed into
\* twelve Selectors, one of them for hop_count on the second subset.
C6_Witness ==
  \E p \in 1..Len(parses) :
    /\ parses[p].file["metric"].value = "all"
    /\ Len(parses[p].file["subsets"].items) = 2
    /\ Len(parses[p].selectors) = 12
    /\ \E j \in 7..12 :
         /\ parses[p].selectors[j].metric = "hop_count"
         /\ parses[p].selectors[j].mlab_project = "paris_traceroute"
         /\ parses[p].selectors[j].start_time = datetime(2014, 2, 1, 0, 0, 0)

\* s is a concatenation of one or more (integer, unit) segments: digits
\* and letters only, a digit first and a letter last
IsSegments(s) ==
  /\ Len(s) > 0
  /\ s[1] \in Digits
  /\ s[Len(s)] \in Letters
  /\ \A i \in 1..Len(s) : s[i] \in Digits \cup Letters

\* every unit, a maximal run of letters, is one of d, h, m, s
UnitsSupported(s) ==
  \A i \in 1..Len(s) :
    s[i] \in Letters =>
      /\ s[i] \in {"d", "h", "m", "s"}
      /\ i < Len(s) => s[i + 1] \notin Letters

\* s holds an (integer, unit) segment: a digit followed by a letter
HasSegment(s) == \E i \in 1..(Len(s) - 1) : s[i] \in Digits /\ s[i + 1] \in Letters

SecondsPerUnit(u) ==
  CASE u = "d" -> 86400 [] u = "h" -> 3600 [] u = "m" -> 60 [] u = "s" -> 1

RECURSIVE PowerOfTen(_)
PowerOfTen(n) == IF n = 0 THEN 1 ELSE 10 * PowerOfTen(n - 1)

\* the seconds the digit at position i of s stands for: its value, times
\* its decimal weight within its integer, times the seconds of the unit
\* that closes the integer (j is the position of that unit)
DigitSeconds(s, i) ==
  LET j == CHOOSE u \in (i + 1)..Len(s) :
             s[u] \in Letters /\ \A k \in (i + 1)..(u - 1) : s[k] \in Digits
  IN digit_value(s[i]) * PowerOfTen(j - i - 1) * SecondsPerUnit(s[j])

RECURSIVE SecondsFrom(_, _)
SecondsFrom(s, i) ==
  IF i > Len(s) THEN 0
  ELSE (IF s[i] \in Digits THEN DigitSeconds(s, i) ELSE 0) + SecondsFrom(s, i + 1)

\* C9: for a string that is a concatenation of (integer, unit) segments,
\* parse_duration returns the sum of integer x seconds-per-unit (d 86400,
\* h 3600, m 60, s 1) when every unit is d, h, m or s and raises
\* UnsupportedSelectorDurationType otherwise; for a string without any
\* segment it raises UnsupportedSelectorDuration.
C9_ParseDuration ==
  (call.fn = "parse_duration" /\ outcome # NotParsed) =>
    /\ (IsSegments(call.input) /\ UnitsSupported(call.input)) =>
         outcome = Returned(SecondsFrom(call.input, 1))
    /\ (IsSegments(call.input) /\ ~UnitsSupported(call.input)) =>
         outcome.raised = "UnsupportedSelectorDurationType"
    /\ ~HasSegment(call.input) =>
         outcome.raised = "UnsupportedSelectorDuration"

\* C9 witness: parse_duration("1d2h") returned 93600.
C9_Witness ==
  /\ call.fn = "parse_duration"
  /\ call.input = <<"1", "d", "2", "h">>
  /\ outcome = Returned(93600)

-----------------------------------------------------------------------------
(* Well-formedness of the WHERE clause *)

\* a sequence of pieces is a well-formed conjunction when it starts with a
\* conjunct and every connective has a conjunct on each side
WellFormedConjunction(conditional_list) ==
  /\ Len(conditional_list) > 0
  /\ IsConjunct(conditional_list[1])
  /\ \A i \in 1..Len(conditional_list) :
       ~IsConjunct(conditional_list[i]) =>
         /\ i > 1
         /\ i < Len(conditional_list)
         /\ IsConjunct(conditional_list[i - 1])
         /\ IsConjunct(conditional_list[i + 1])

\* C11: for every project the constructor accepts (ndt, paris_traceroute or
\* any other), every supported metric and non-empty server IP and client
\* block lists, the WHERE clause of the generated query is a well-formed
\* conjunction: its first element is a predicate, not the AND connective,
\* and every AND stands between two predicates or parenthesised groups.
C11_WhereWellFormed ==
  (/\ generator = "constructed"
   /\ args.metric \in supported_metric_names
   /\ args.server_ips # <<>>
   /\ args.client_ip_blocks # <<>>) =>
    WellFormedConjunction(_query.conditional_list)

====
